---- MODULE Spec2Model ----
(***************************************************************************)
(* Plane partitions (sage/combinat/plane_partition.py) and the orthogonal  *)
(* idempotents of a commutative semisimple algebra                         *)
(* (sage/categories/semisimple_algebras.py).                               *)
(*                                                                         *)
(* Python lists are 0-based; the sequences below are 1-based, so position  *)
(* r of the source is position r+1 here.  A Python exception is a value    *)
(* whose kind is the exception's class.                                    *)
(***************************************************************************)
EXTENDS Integers, Sequences, FiniteSets, TLC

VARIABLES
    \* PlanePartition objects
    parentBox,  \* the parent's _box: NoBox or <<A, B, C>>
    pp,         \* the row array handed to the constructor
    obj,        \* the current object (or the exception that was raised)
    orig,       \* the object as first constructed
    ops,        \* the methods applied to orig so far, in order
    member,     \* the outcome of PlanePartitions_all.__contains__(pp)
    cyclic,     \* the object is_CSPP() was called on and what it returned
    \* PlanePartitions_box.__iter__
    box,        \* the enumerator's _box
    queues,     \* antichains_queues of the antichain iterator
    acl,        \* the antichain of the last yield
    emitted,    \* the set of row arrays yielded so far
    count,      \* the number of yields so far
    ipc,        \* "iter" while the generator runs, "done" after StopIteration
    sampled,    \* the element random_element() returned, if it was called
    \* central_orthogonal_idempotents
    algBasis,   \* self.basis() of the algebra
    frame,      \* the running call of _orthogonal_decomposition
    pending,    \* the submodules of decomp whose call has not started yet
    decomposition, \* the vectors returned by the calls that have returned
    idempotents,   \* the list central_orthogonal_idempotents returns
    apc,        \* "call", "return", "done", or the exception raised
    callerList, \* the list the caller passed as generators: at the call, and now
    \* PlanePartitions(...) and the iteration of the parent it returns
    args,       \* the arguments of the call of the factory
    itParent,   \* the parent returned (or the exception that was raised)
    itQueues,   \* antichains_queues of the parent's antichain iterator
    itRest,     \* the elements PlanePartitions_n.__iter__ has still to yield
    itAcl,      \* the antichain of the last yield
    itEmitted,  \* the set of row arrays yielded so far
    itCount,    \* the number of yields so far
    itVerdicts, \* the outcomes of the class's predicate on the elements yielded
    itPc        \* "new", "iter", "done", or the exception raised

ppVars == <<parentBox, pp, obj, orig, ops, member, cyclic>>
boxVars == <<box, queues, acl, emitted, count, ipc, sampled>>
algVars == <<algBasis, frame, pending, decomposition, idempotents, apc, callerList>>
facVars == <<args, itParent, itQueues, itRest, itAcl, itEmitted, itCount, itVerdicts, itPc>>
vars == <<ppVars, boxVars, algVars, facVars>>

-----------------------------------------------------------------------------
(* Bounds of the model.                                                    *)

MaxRows == 2      \* rows of an array handed to the operations
MaxCols == 2      \* length of a row
MaxEntry == 2     \* largest entry
MaxSide == 2      \* largest side of a parent's box
MaxOps == 2       \* methods applied in a row to one object
MaxRawRows == 3   \* rows of an array handed to the validation
MaxRawCols == 2   \* length of such a row
MaxRawEntry == 1  \* largest entry of such a row (the smallest is -1)
MaxBoxA == 3      \* largest first side of an enumerated box
MaxBoxB == 2      \* largest second side of an enumerated box
MaxBoxC == 2      \* largest third side of an enumerated box
MaxDim == 3       \* largest dimension of an algebra
MaxCoeff == 1     \* largest component of a vector of the algebra's basis
MaxSymSide == 3   \* largest side of a box whose symmetric enumerator is iterated
MaxHalfSide == 3  \* largest r of a cube (2r, 2r, 2r) handed to the factory
MaxN == 5         \* largest size handed to the factory
MaxGiven == 2     \* longest list of generators a caller passes

-----------------------------------------------------------------------------
(* Helpers.                                                                *)

Min(S) == CHOOSE x \in S : \A y \in S : x <= y

Max(S) == CHOOSE x \in S : \A y \in S : x >= y

\* The smaller of two values, where the fill rule takes the larger.
Min2(x, y) == IF x >= y THEN y ELSE x

Max2(x, y) == IF x >= y THEN x ELSE y

ArraysOver(E, maxRows, maxCols) ==
    LET rows == UNION {[1..n -> E] : n \in 0..maxCols}
    IN UNION {[1..m -> rows] : m \in 0..maxRows}

-----------------------------------------------------------------------------
(* class PlanePartition                                                    *)

NoBox == <<>>

NoObject == [kind |-> "none", list |-> <<>>, max_x |-> 0, max_y |-> 0, max_z |-> 0]

\* No predicate has been called yet.
NotAsked == [on |-> NoObject, answer |-> "unset"]

Raise(exc) == [kind |-> exc, list |-> <<>>, max_x |-> 0, max_y |-> 0, max_z |-> 0]

Object(rows, x, y, z) ==
    [kind |-> "PlanePartition", list |-> rows, max_x |-> x, max_y |-> y, max_z |-> z]

\* all(c >= 0 for c in row)
RowNonnegative(row) == \A i \in 1..Len(row) : row[i] >= 0

\* all(row[i] >= row[i+1] for i in range(len(row)-1))
RowWeaklyDecreasing(row) == \A i \in 1..(Len(row) - 1) : row[i] >= row[i + 1]

\* all(row[c] >= next[c] for c in range(len(next))): the generator stops at the
\* first c that compares False, and row[c] raises IndexError when row is shorter.
ColumnsOutcome(row, next) ==
    LET stop == {c \in 1..Len(next) : c > Len(row) \/ row[c] < next[c]}
    IN IF stop = {} THEN "True"
       ELSE IF Min(stop) > Len(row) THEN "IndexError" ELSE "False"

\* The second loop of check() and of __contains__: the first adjacent pair whose
\* comparison does not come out True decides.
PairsOutcome(rows) ==
    LET stop == {k \in 1..(Len(rows) - 1) : ColumnsOutcome(rows[k], rows[k + 1]) # "True"}
    IN IF stop = {} THEN "True"
       ELSE ColumnsOutcome(rows[Min(stop)], rows[Min(stop) + 1])

\* PlanePartition.check: "ok", or the class of the exception raised.
check(rows) ==
    IF \E r \in 1..Len(rows) : ~RowNonnegative(rows[r]) \/ ~RowWeaklyDecreasing(rows[r])
    THEN "ValueError"
    ELSE CASE PairsOutcome(rows) = "True" -> "ok"
           [] PairsOutcome(rows) = "False" -> "ValueError"
           [] OTHER -> "IndexError"

\* PlanePartitions_all.__contains__: "True", "False", or the exception raised.
contains(rows) ==
    IF \E r \in 1..Len(rows) : ~RowNonnegative(rows[r]) \/ ~RowWeaklyDecreasing(rows[r])
    THEN "False"
    ELSE PairsOutcome(rows)

\* PlanePartition.__init__(parent, pp, check)
New(parent, rows, doCheck) ==
    LET verdict == IF doCheck THEN check(rows) ELSE "ok"
    IN IF verdict # "ok" THEN Raise(verdict)
       ELSE IF parent = NoBox
            THEN IF Len(rows) > 0
                 THEN IF Len(rows[1]) = 0
                      THEN Raise("IndexError")
                      ELSE Object(rows, Len(rows), Len(rows[1]), rows[1][1])
                 ELSE Object(rows, 0, 0, 0)
            ELSE Object(rows, parent[1], parent[2], parent[3])

\* PlanePartition.cells: the triples (r, c, h), with r and c counted from 1 here.
cells(rows) ==
    UNION {UNION {{<<r, c, h>> : h \in 0..(rows[r][c] - 1)} : c \in 1..Len(rows[r])}
              : r \in 1..Len(rows)}

\* A tableau computed by a method, or the exception the method raised.
Tableau(t) == [exc |-> "", tab |-> t]

TableauRaise(exc) == [exc |-> exc, tab |-> <<>>]

\* z_tableau with "Z[C[0]][C[1]] = 1" for "+= 1": every column of cells counts once.
z_tableau_assigning(o) ==
    LET C == cells(o.list)
    IN IF \E t \in C : t[1] > o.max_x \/ t[2] > o.max_y
       THEN TableauRaise("IndexError")
       ELSE Tableau([r \in 1..o.max_x |->
                        [c \in 1..o.max_y |->
                            IF \E t \in C : t[1] = r /\ t[2] = c THEN 1 ELSE 0]])

\* PlanePartition.z_tableau: Z[C[0]][C[1]] += 1 raises IndexError for a cell
\* outside the max_x by max_y matrix of zeros.
z_tableau(o) ==
    LET C == cells(o.list)
    IN IF \E t \in C : t[1] > o.max_x \/ t[2] > o.max_y
       THEN TableauRaise("IndexError")
       ELSE Tableau([r \in 1..o.max_x |->
                        [c \in 1..o.max_y |->
                            Cardinality({t \in C : t[1] = r /\ t[2] = c})]])

\* PlanePartition.complement(tableau_only=True): T[A-1-r][B-1-c] = C - z_tab[r][c]
complement_tableau(o) ==
    LET A == o.max_x
        B == o.max_y
        C == o.max_z
        z_tab == z_tableau(o)
    IN IF z_tab.exc # "" THEN z_tab
       ELSE Tableau([i \in 1..A |-> [j \in 1..B |-> C - z_tab.tab[A + 1 - i][B + 1 - j]]])

\* PlanePartition.complement(): type(self)(self.parent(), T, check=False)
complement(parent, o) ==
    LET T == complement_tableau(o)
    IN IF T.exc # "" THEN Raise(T.exc) ELSE New(parent, T.tab, FALSE)

\* PlanePartition.transpose(tableau_only=True): T is max_y by max_x and
\* T[c][r] = z_tab[r][c]
transpose_tableau(o) ==
    LET z_tab == z_tableau(o)
    IN IF z_tab.exc # "" THEN z_tab
       ELSE Tableau([c \in 1..o.max_y |-> [r \in 1..o.max_x |-> z_tab.tab[r][c]]])

\* PlanePartition.transpose(): type(self)(self.parent(), T, check=False)
transpose(parent, o) ==
    LET T == transpose_tableau(o)
    IN IF T.exc # "" THEN Raise(T.exc) ELSE New(parent, T.tab, FALSE)

\* PlanePartition.y_tableau: Y is max_z by max_x and Y[C[2]][C[0]] += 1 raises
\* IndexError for a cell outside it.
y_tableau(o) ==
    LET C == cells(o.list)
    IN IF \E t \in C : t[3] + 1 > o.max_z \/ t[1] > o.max_x
       THEN TableauRaise("IndexError")
       ELSE Tableau([h \in 1..o.max_z |->
                        [r \in 1..o.max_x |->
                            Cardinality({t \in C : t[3] + 1 = h /\ t[1] = r})]])

\* PlanePartition.x_tableau: X is max_y by max_z and X[C[1]][C[2]] += 1 raises
\* IndexError for a cell outside it.
x_tableau(o) ==
    LET C == cells(o.list)
    IN IF \E t \in C : t[2] > o.max_y \/ t[3] + 1 > o.max_z
       THEN TableauRaise("IndexError")
       ELSE Tableau([c \in 1..o.max_y |->
                        [h \in 1..o.max_z |->
                            Cardinality({t \in C : t[2] = c /\ t[3] + 1 = h})]])

\* The outcome of "p and q": q is evaluated only when p is True.
AndThen(p, q) == IF p = "True" THEN q ELSE p

\* The outcome of "s == t" for two tableaux, either of which may have raised;
\* s is computed first.
SameTableau(s, t) ==
    IF s.exc # "" THEN s.exc
    ELSE IF t.exc # "" THEN t.exc
    ELSE IF s.tab = t.tab THEN "True" ELSE "False"

\* PlanePartition.is_SPP: all(z_tab[r][c] == z_tab[c][r] ...), r in
\* range(len(z_tab)) and c in range(r, len(z_tab[r])); the first pair that
\* compares False or whose z_tab[c] does not exist decides.
is_SPP(o) ==
    LET z_tab == z_tableau(o)
        width == o.max_y + 1
        stop == {r * width + c : r \in 1..o.max_x, c \in 1..o.max_y}
        first(S) == Min(S)
        bad == {k \in stop :
                   LET r == k \div width
                       c == k % width
                   IN c >= r /\ (c > o.max_x \/ z_tab.tab[r][c] # z_tab.tab[c][r])}
    IN IF z_tab.exc # "" THEN z_tab.exc
       ELSE IF bad = {} THEN "True"
       ELSE IF (first(bad) % width) > o.max_x THEN "IndexError" ELSE "False"

\* is_CSPP comparing the z-tableau with its transpose instead of the y-tableau.
is_CSPP_by_transpose(o) == SameTableau(z_tableau(o), transpose_tableau(o))

\* PlanePartition.is_CSPP: self.z_tableau() == self.y_tableau()
is_CSPP(o) == SameTableau(z_tableau(o), y_tableau(o))

\* PlanePartition.is_TSPP: self.is_CSPP() and self.is_SPP()
is_TSPP(o) == AndThen(is_CSPP(o), is_SPP(o))

\* PlanePartition.is_SCPP: self.z_tableau() == self.complement(True)
is_SCPP(o) == SameTableau(z_tableau(o), complement_tableau(o))

\* PlanePartition.is_TCPP: self.transpose(True) == self.complement(True)
is_TCPP(o) == SameTableau(transpose_tableau(o), complement_tableau(o))

\* PlanePartition.is_SSCPP: self.is_SPP() and self.is_SCPP()
is_SSCPP(o) == AndThen(is_SPP(o), is_SCPP(o))

\* PlanePartition.is_CSTCPP: self.is_CSPP() and self.is_TCPP()
is_CSTCPP(o) == AndThen(is_CSPP(o), is_TCPP(o))

\* PlanePartition.is_CSSCPP: self.is_CSPP() and self.is_SCPP()
is_CSSCPP(o) == AndThen(is_CSPP(o), is_SCPP(o))

\* PlanePartition.is_TSSCPP: self.is_TSPP() and self.is_SCPP()
is_TSSCPP(o) == AndThen(is_TSPP(o), is_SCPP(o))

-----------------------------------------------------------------------------
(* posets.ProductOfChains([a, b, c]) and its antichains_iterator: the     *)
(* poset library the enumerator calls.                                     *)

\* The elements (x, y, z), 0 <= x < a, 0 <= y < b, 0 <= z < c.
ProductOfChains(bx) == (0..(bx[1] - 1)) \X (0..(bx[2] - 1)) \X (0..(bx[3] - 1))

\* The componentwise order.
Leq(p, q) == p[1] <= q[1] /\ p[2] <= q[2] /\ p[3] <= q[3]

\* The element at position k of the linear extension the iterator works in.
ElementAt(bx, k) == <<k \div (bx[2] * bx[3]), (k \div bx[3]) % bx[2], k % bx[3]>>

\* antichains_queues = [([], list(range(n - 1, -1, -1)))]
InitialQueues(bx) ==
    LET n == bx[1] * bx[2] * bx[3]
    IN <<[antichain |-> <<>>, queue |-> [k \in 1..n |-> ElementAt(bx, n - k)]]>>

\* while queue: x = queue.pop(); the entries appended to antichains_queues, in
\* the order they are appended.
RECURSIVE Expand(_, _)
Expand(antichain, queue) ==
    IF queue = <<>> THEN <<>>
    ELSE LET x == queue[Len(queue)]
             rest == SubSeq(queue, 1, Len(queue) - 1)
             new_queue == SelectSeq(rest, LAMBDA t : ~(Leq(t, x) \/ Leq(x, t)))
         IN <<[antichain |-> Append(antichain, x), queue |-> new_queue]>>
                \o Expand(antichain, rest)

-----------------------------------------------------------------------------
(* class PlanePartitions_box                                               *)

\* ppMatrix after "for ac in acl: ppMatrix[y][z] = x + 1" on a b by c matrix
\* of zeros: the last point of acl at (y, z) decides.
PlacePoints(bx, antichain) ==
    [i \in 1..bx[2] |->
        [j \in 1..bx[3] |->
            LET at == {n \in 1..Len(antichain) :
                          antichain[n][2] = i - 1 /\ antichain[n][3] = j - 1}
            IN IF at = {} THEN 0 ELSE antichain[Max(at)][1] + 1]]

\* The fill loop: i from b-1 down to 0 and, within it, j from c-1 down to 0;
\* k cells have been visited.
RECURSIVE FillFrom(_, _, _, _)
FillFrom(ppMatrix, b, c, k) ==
    IF k = b * c THEN ppMatrix
    ELSE LET i == b - (k \div c)
             j == c - (k % c)
             iValue == IF i < b THEN ppMatrix[i + 1][j] ELSE 0
             jValue == IF j < c THEN ppMatrix[i][j + 1] ELSE 0
         IN FillFrom(IF ppMatrix[i][j] = 0
                     THEN [ppMatrix EXCEPT ![i][j] = Max2(iValue, jValue)]
                     ELSE ppMatrix,
                     b, c, k + 1)

\* The array yielded for one antichain.
MatrixOf(bx, antichain) ==
    IF antichain # <<>>
    THEN FillFrom(PlacePoints(bx, antichain), bx[2], bx[3], 0)
    ELSE PlacePoints(bx, antichain)

\* Exact rationals, kept in lowest terms as Sage's rationals are.
RECURSIVE Gcd(_, _)
Gcd(m, n) == IF n = 0 THEN m ELSE Gcd(n, m % n)

Rational(n, d) == [num |-> n \div Gcd(n, d), den |-> d \div Gcd(n, d)]

\* The factor with its two sums taken one too large: (i+j+k) / (i+j+k-1).
CardinalityFactorShifted(i, j, k) == Rational(i + j + k, i + j + k - 1)

\* Integer(i+j+k-1) / Integer(i+j+k-2)
CardinalityFactor(i, j, k) == Rational(i + j + k - 1, i + j + k - 2)

\* prod(... for i in range(1, A+1) for j in range(1, B+1) for k in range(1, C+1)),
\* the first n factors of it.
RECURSIVE ProductOfFactors(_, _)
ProductOfFactors(bx, n) ==
    IF n = 0 THEN Rational(1, 1)
    ELSE LET t == n - 1
             f == CardinalityFactor((t \div (bx[2] * bx[3])) + 1,
                                    ((t \div bx[3]) % bx[2]) + 1,
                                    (t % bx[3]) + 1)
             q == ProductOfFactors(bx, n - 1)
         IN Rational(q.num * f.num, q.den * f.den)

\* PlanePartitions_box.cardinality: Integer(q) raises TypeError for a rational
\* that is no integer.
cardinality(bx) ==
    LET q == ProductOfFactors(bx, bx[1] * bx[2] * bx[3])
    IN IF q.den = 1 THEN [exc |-> "", value |-> q.num]
       ELSE [exc |-> "TypeError", value |-> 0]

-----------------------------------------------------------------------------
(* Poset((pl, cmp)) and its antichains_iterator: the poset library the     *)
(* symmetric enumerators call.  An order is the set of its pairs.          *)

\* The place of a point in the linear extension the iterator works in: by the
\* sum of the coordinates, then lexicographically.
ExtensionKey(p) == (p[1] + p[2] + p[3]) * 4096 + p[1] * 256 + p[2] * 16 + p[3]

\* The elements of the poset, in the order of the linear extension.
LinearExtension(pl) ==
    [k \in 1..Cardinality(pl) |->
        CHOOSE p \in pl : Cardinality({q \in pl : ExtensionKey(q) < ExtensionKey(p)}) = k - 1]

\* antichains_queues = [([], list(range(n - 1, -1, -1)))]
QueuesOf(pl) ==
    LET ext == LinearExtension(pl)
    IN <<[antichain |-> <<>>, queue |-> [k \in 1..Len(ext) |-> ext[Len(ext) + 1 - k]]]>>

\* while queue: x = queue.pop(); ... for the order rel.
RECURSIVE ExpandIn(_, _, _)
ExpandIn(rel, antichain, queue) ==
    IF queue = <<>> THEN <<>>
    ELSE LET x == queue[Len(queue)]
             rest == SubSeq(queue, 1, Len(queue) - 1)
             new_queue == SelectSeq(rest, LAMBDA t : ~(<<t, x>> \in rel \/ <<x, t>> \in rel))
         IN <<[antichain |-> Append(antichain, x), queue |-> new_queue]>>
                \o ExpandIn(rel, antichain, rest)

-----------------------------------------------------------------------------
(* class PlanePartitions_SPP                                               *)

\* pl: the points (x, y, z) of the box with z <= y.
SPP_pl(bx) == {p \in ProductOfChains(bx) : p[3] <= p[2]}

\* cmp = lambda x,y : all(x[i] <= y[i] for i in range(len(x)))
SPP_order(bx) == {pq \in SPP_pl(bx) \X SPP_pl(bx) : Leq(pq[1], pq[2])}

\* The fill loop of PlanePartitions_SPP.__iter__; k cells have been visited.
\* ppMatrix[j][i] raises IndexError when the matrix has no row j.
RECURSIVE SPP_FillFrom(_, _, _, _)
SPP_FillFrom(ppMatrix, b, c, k) ==
    IF k = b * c THEN Tableau(ppMatrix)
    ELSE LET i == b - (k \div c)
             j == c - (k % c)
             iValue == IF i < b THEN ppMatrix[i + 1][j] ELSE 0
             jValue == IF j < c THEN ppMatrix[i][j + 1] ELSE 0
         IN IF ppMatrix[i][j] = 0 /\ i >= j
            THEN SPP_FillFrom([ppMatrix EXCEPT ![i][j] = Max2(iValue, jValue)], b, c, k + 1)
            ELSE IF j > i
                 THEN IF j > b THEN TableauRaise("IndexError")
                      ELSE SPP_FillFrom([ppMatrix EXCEPT ![i][j] = ppMatrix[j][i]], b, c, k + 1)
                 ELSE SPP_FillFrom(ppMatrix, b, c, k + 1)

\* The array built for one antichain, or the exception raised on the way.
SPP_MatrixOf(bx, antichain) ==
    IF antichain # <<>>
    THEN SPP_FillFrom(PlacePoints(bx, antichain), bx[2], bx[3], 0)
    ELSE Tableau(PlacePoints(bx, antichain))

-----------------------------------------------------------------------------
(* class PlanePartitions_CSPP                                              *)

\* pl: for z in range(x, c): if y <= z and (x != z or y == x)
CSPP_pl(bx) ==
    {p \in ProductOfChains(bx) : p[3] >= p[1] /\ p[2] <= p[3] /\ (p[1] # p[3] \/ p[2] = p[1])}

\* cmp2 = lambda x,y : cmp(x,y) or cmp(x,(y[2],y[0],y[1])) or cmp(x,(y[1],y[2],y[0]))
cmp2(p, q) == Leq(p, q) \/ Leq(p, <<q[3], q[1], q[2]>>) \/ Leq(p, <<q[2], q[3], q[1]>>)

CSPP_order(bx) == {pq \in CSPP_pl(bx) \X CSPP_pl(bx) : cmp2(pq[1], pq[2])}

\* "for ac in acl": ppMatrix[y][z] = x+1, ppMatrix[z][x] = y+1 and
\* ppMatrix[x][y] = z+1 on the b by c matrix, for the points from the k-th on.
RECURSIVE CSPP_PlaceFrom(_, _, _, _, _)
CSPP_PlaceFrom(ppMatrix, b, c, points, k) ==
    IF k > Len(points) THEN Tableau(ppMatrix)
    ELSE LET x == points[k][1]
             y == points[k][2]
             z == points[k][3]
         IN IF z + 1 > b \/ x + 1 > c \/ x + 1 > b \/ y + 1 > c
            THEN TableauRaise("IndexError")
            ELSE CSPP_PlaceFrom([[[ppMatrix EXCEPT ![y + 1][z + 1] = x + 1]
                                              EXCEPT ![z + 1][x + 1] = y + 1]
                                              EXCEPT ![x + 1][y + 1] = z + 1],
                                b, c, points, k + 1)

\* The array built for one antichain, or the exception raised on the way.
CSPP_MatrixOf(bx, antichain) ==
    LET placed == CSPP_PlaceFrom([i \in 1..bx[2] |-> [j \in 1..bx[3] |-> 0]],
                                 bx[2], bx[3], antichain, 1)
    IN IF placed.exc # "" THEN placed
       ELSE IF antichain # <<>>
            THEN Tableau(FillFrom(placed.tab, bx[2], bx[3], 0))
            ELSE placed

-----------------------------------------------------------------------------
(* class PlanePartitions_TSSCPP                                            *)

\* n/2 for the even side n of the box.
Half(n) == n \div 2

\* pl: x in range(0, n/2-1), y in range(x, n/2-1), z in range(0, n/2-1) with
\* z <= n/2 - 2 - y.
TSSCPP_pl(n) ==
    {p \in (0..(Half(n) - 2)) \X (0..(Half(n) - 2)) \X (0..(Half(n) - 2)) :
        p[2] >= p[1] /\ p[3] <= Half(n) - 2 - p[2]}

\* componentwise_comparer
TSSCPP_order(n) == {pq \in TSSCPP_pl(n) \X TSSCPP_pl(n) : Leq(pq[1], pq[2])}

\* "generate inner triangle": ppMatrix[j + n/2][i + n/2] becomes the largest
\* z + 1 over the points (i, j, z) of the antichain, for i <= j < n/2 - 1.
TSSCPP_InnerTriangle(n, points) ==
    [R \in 1..n |->
        [C \in 1..n |->
            LET i == C - Half(n) - 1
                j == R - Half(n) - 1
                at == {k \in 1..Len(points) : points[k][1] = i /\ points[k][2] = j}
            IN IF 0 <= i /\ i <= j /\ j < Half(n) - 1 /\ at # {}
               THEN Max({points[k][3] + 1 : k \in at})
               ELSE 0]]

\* "fill back": i and j run from n - 2 down to n/2; k cells have been visited.
RECURSIVE TSSCPP_FillBack(_, _, _)
TSSCPP_FillBack(ppMatrix, n, k) ==
    LET width == Half(n) - 1
    IN IF k >= width * width THEN ppMatrix
       ELSE LET i == (width - ((k \div width) + 1)) + Half(n) + 1
                j == (width - ((k % width) + 1)) + Half(n) + 1
            IN IF ppMatrix[i][j] = 0 /\ i >= j
               THEN TSSCPP_FillBack(
                        [ppMatrix EXCEPT ![i][j] = Max2(ppMatrix[i + 1][j], ppMatrix[i][j + 1])],
                        n, k + 1)
               ELSE TSSCPP_FillBack(ppMatrix, n, k + 1)

\* "fill half of triangle symmetrically": ppMatrix[j][i] = ppMatrix[i][j] for
\* i >= j, both in n/2 .. n-2.
TSSCPP_Mirror(ppMatrix, n) ==
    [R \in 1..n |->
        [C \in 1..n |->
            IF R > Half(n) /\ R < n /\ C > Half(n) /\ C < n /\ C >= R
            THEN ppMatrix[C][R]
            ELSE ppMatrix[R][C]]]

\* The upper left box copied from the lower right one, not complemented in n.
TSSCPP_UpperLeftCopied(ppMatrix, n) ==
    [R \in 1..n |->
        [C \in 1..n |->
            IF R <= Half(n) /\ C <= Half(n)
            THEN ppMatrix[n + 1 - R][n + 1 - C]
            ELSE ppMatrix[R][C]]]

\* "upper left box": ppMatrix[i][j] = n - ppMatrix[n-(i+1)][n-(j+1)]
TSSCPP_UpperLeft(ppMatrix, n) ==
    [R \in 1..n |->
        [C \in 1..n |->
            IF R <= Half(n) /\ C <= Half(n)
            THEN n - ppMatrix[n + 1 - R][n + 1 - C]
            ELSE ppMatrix[R][C]]]

\* "fill in lower left cube with values n/2", and the upper right one.
TSSCPP_HalfBlocks(ppMatrix, n) ==
    [R \in 1..n |->
        [C \in 1..n |->
            IF ((R <= Half(n) /\ C > Half(n)) \/ (R > Half(n) /\ C <= Half(n)))
                   /\ ppMatrix[R][C] = 0
            THEN Half(n)
            ELSE ppMatrix[R][C]]]

\* "for cVal in range(z)": ppMatrix[x][cVal] += 1 and
\* ppMatrix[n-(1+cVal)][(n/2)-(j+1)] -= 1, from cVal on; x and j as in the source.
RECURSIVE TSSCPP_CarveCell(_, _, _, _, _, _)
TSSCPP_CarveCell(ppMatrix, n, x, j, cVal, z) ==
    IF cVal >= z THEN Tableau(ppMatrix)
    ELSE IF cVal >= n THEN TableauRaise("IndexError")
    ELSE LET built == [ppMatrix EXCEPT ![x + 1][cVal + 1] = @ + 1]
             carved == [built EXCEPT ![n - cVal][Half(n) - j] = @ - 1]
         IN TSSCPP_CarveCell(carved, n, x, j, cVal + 1, z)

\* "add and subtract values from lower left cube": the cells (i + n/2, j + n/2)
\* in the order of the two loops; k of them have been visited.
RECURSIVE TSSCPP_CarveFrom(_, _, _)
TSSCPP_CarveFrom(ppMatrix, n, k) ==
    IF k >= Half(n) * Half(n) THEN Tableau(ppMatrix)
    ELSE LET i == k \div Half(n)
             j == k % Half(n)
             x == i + Half(n)
             y == j + Half(n)
             z == ppMatrix[x + 1][y + 1]
             after == IF z > 0 THEN TSSCPP_CarveCell(ppMatrix, n, x, j, 0, z)
                      ELSE Tableau(ppMatrix)
         IN IF after.exc # "" THEN after ELSE TSSCPP_CarveFrom(after.tab, n, k + 1)

\* "fill in upper right cube symmetrically with lower left":
\* ppMatrix[j][i+(n/2)] = ppMatrix[i+(n/2)][j]
TSSCPP_UpperRight(ppMatrix, n) ==
    [R \in 1..n |->
        [C \in 1..n |->
            IF R <= Half(n) /\ C > Half(n) THEN ppMatrix[C][R] ELSE ppMatrix[R][C]]]

\* The array built for one antichain, or the exception raised on the way.
TSSCPP_MatrixOf(n, antichain) ==
    LET triangle == TSSCPP_FillBack(TSSCPP_InnerTriangle(n, antichain), n, 0)
        blocks == TSSCPP_HalfBlocks(TSSCPP_UpperLeft(TSSCPP_Mirror(triangle, n), n), n)
        carved == TSSCPP_CarveFrom(blocks, n, 0)
    IN IF carved.exc # "" THEN carved ELSE Tableau(TSSCPP_UpperRight(carved.tab, n))

-----------------------------------------------------------------------------
(* Partitions(m) and Sigma()(k, 2): the library PlanePartitions_n calls.   *)

\* The sequences of a sequence of sequences, one after the other.
RECURSIVE Concat(_)
Concat(seqs) == IF seqs = <<>> THEN <<>> ELSE Head(seqs) \o Concat(Tail(seqs))

\* sum(la)
RECURSIVE SumOf(_)
SumOf(la) == IF la = <<>> THEN 0 ELSE Head(la) + SumOf(Tail(la))

\* The partitions of m with parts at most top, the largest first part first.
RECURSIVE PartitionsBelow(_, _)
PartitionsBelow(m, top) ==
    IF m = 0 THEN << <<>> >>
    ELSE LET first == IF m < top THEN m ELSE top
         IN Concat([t \in 1..first |->
                LET part == first + 1 - t
                    tails == PartitionsBelow(m - part, part)
                IN [u \in 1..Len(tails) |-> <<part>> \o tails[u]]])

\* Partitions(m)
Partitions(m) == PartitionsBelow(m, m)

\* Sigma()(k, 2): the sum of the squares of the divisors of k.
RECURSIVE SquaresOfDivisors(_, _)
SquaresOfDivisors(k, d) ==
    IF d = 0 THEN 0
    ELSE (IF k % d = 0 THEN d * d ELSE 0) + SquaresOfDivisors(k, d - 1)

Sigma2(k) == SquaresOfDivisors(k, k)

-----------------------------------------------------------------------------
(* class PlanePartitions_n                                                 *)

\* What a generator yields: a value, or None for a bare "yield".
Yield(v) == [none |-> FALSE, value |-> v]

YieldNone == [none |-> TRUE, value |-> <<>>]

\* "if mu is not None": the values of the yields that are not None.
NotNone(yields) ==
    LET kept == SelectSeq(yields, LAMBDA y : ~y.none)
    IN [u \in 1..Len(kept) |-> kept[u].value]

\* P_in_shape_iter(n, la): the sequence of its yields.
RECURSIVE P_in_shape_iter(_, _)
P_in_shape_iter(n, la) ==
    IF n < 0 \/ SumOf(la) < n THEN <<YieldNone>>
    ELSE IF n = 0 THEN <<Yield(<<>>)>>
    ELSE IF Len(la) = 1
         THEN IF la[1] >= n THEN <<Yield(<<n>>)>> ELSE <<YieldNone>>
    ELSE IF SumOf(la) = n THEN <<Yield(la)>>
    ELSE LET top == IF n < la[1] THEN n ELSE la[1]
         IN Concat([t \in 1..top |->
                LET mu_0 == top + 1 - t
                    new_la == [i \in 1..(Len(la) - 1) |->
                                  IF mu_0 < la[i + 1] THEN mu_0 ELSE la[i + 1]]
                    mus == NotNone(P_in_shape_iter(n - mu_0, new_la))
                IN [u \in 1..Len(mus) |-> Yield(<<mu_0>> \o mus[u])]])

\* PP_first_row_iter(n, la): the sequence of its yields.
RECURSIVE PP_first_row_iter(_, _)
PP_first_row_iter(n, la) ==
    LET m == n - SumOf(la)
    IN IF m < 0 THEN <<YieldNone>>
       ELSE IF m = 0 THEN <<Yield(<<la>>)>>
       ELSE Concat([t \in 1..m |->
                LET k == m + 1 - t
                    mus == NotNone(P_in_shape_iter(k, la))
                IN Concat([u \in 1..Len(mus) |->
                       LET PPs == NotNone(PP_first_row_iter(m, mus[u]))
                       IN [v \in 1..Len(PPs) |-> Yield(<<la>> \o PPs[v])]])])

\* PlanePartition(a): the factory makes the element in PlanePartitions(); None
\* is no list of rows.
ElementOf(yielded) ==
    IF yielded.none THEN Raise("TypeError") ELSE New(NoBox, yielded.value, TRUE)

\* __iter__ with "for m in range(n-1, 0, -1)": the first rows of sum n are left out.
iter_n_below(n) ==
    IF n = 0 THEN <<New(NoBox, <<>>, TRUE)>>
    ELSE Concat([t \in 1..(n - 1) |->
             LET m == n - t
                 las == Partitions(m)
             IN Concat([u \in 1..Len(las) |->
                    LET as == PP_first_row_iter(n, las[u])
                    IN [v \in 1..Len(as) |-> ElementOf(as[v])]])])

\* PlanePartitions_n.__iter__: the sequence of the elements it yields.
iter_n(n) ==
    IF n = 0 THEN <<New(NoBox, <<>>, TRUE)>>
    ELSE Concat([t \in 1..n |->
             LET m == n + 1 - t
                 las == Partitions(m)
             IN Concat([u \in 1..Len(las) |->
                    LET as == PP_first_row_iter(n, las[u])
                    IN [v \in 1..Len(as) |-> ElementOf(as[v])]])])

\* p + q for two rationals.
RationalSum(p, q) == Rational(p.num * q.den + q.num * p.den, p.den * q.den)

\* sum(PPn[i-k] * Sigma()(k,2) for k in range(1, i+1)), the first k terms of it.
RECURSIVE SumOfTerms(_, _, _)
SumOfTerms(PPn, i, k) ==
    IF k = 0 THEN Rational(0, 1)
    ELSE RationalSum(SumOfTerms(PPn, i, k - 1),
                     Rational(PPn[i - k + 1].num * Sigma2(k), PPn[i - k + 1].den))

\* nextPPn = sum(...) / i with the sum divided by 2i: a factor lost in the recurrence.
nextPPnHalved(PPn, i) ==
    LET total == SumOfTerms(PPn, i, i)
    IN Rational(total.num, total.den * 2 * i)

\* nextPPn = sum(...) / i
nextPPn(PPn, i) ==
    LET total == SumOfTerms(PPn, i, i)
    IN Rational(total.num, total.den * i)

\* PPn after the loop has run for i = 1..n.
RECURSIVE PPnList(_)
PPnList(n) ==
    IF n = 0 THEN <<Rational(1, 1)>>
    ELSE LET PPn == PPnList(n - 1) IN Append(PPn, nextPPn(PPn, n))

\* PlanePartitions_n.cardinality: PPn[-1]
cardinality_n(n) == PPnList(n)[n + 1]

-----------------------------------------------------------------------------
(* The algebra: a direct product of copies of the base field.  An element  *)
(* is written by its components, one per copy of the field; the product is *)
(* componentwise.  lift, retract and from_vector change the coordinates an *)
(* element is written in, not the element.                                 *)

\* self.base_ring(): the field of integers modulo FieldP.
FieldP == 3

Field == 0..(FieldP - 1)

Inverse(c) == CHOOSE i \in Field : (c * i) % FieldP = 1

Zero(d) == [i \in 1..d |-> 0]

One(d) == [i \in 1..d |-> 1]

Add(x, y) == [i \in DOMAIN x |-> (x[i] + y[i]) % FieldP]

Scale(c, x) == [i \in DOMAIN x |-> (c * x[i]) % FieldP]

\* x * y
Mul(x, y) == [i \in DOMAIN x |-> (x[i] * y[i]) % FieldP]

\* sum of coeffs[n] * vectors[n], in a space of dimension d
RECURSIVE LinearCombination(_, _, _)
LinearCombination(coeffs, vectors, d) ==
    IF vectors = <<>> THEN Zero(d)
    ELSE Add(Scale(coeffs[1], vectors[1]),
             LinearCombination(Tail(coeffs), Tail(vectors), d))

RECURSIVE Sum(_, _)
Sum(vectors, d) ==
    IF vectors = <<>> THEN Zero(d) ELSE Add(vectors[1], Sum(Tail(vectors), d))

Span(vectors, d) ==
    {LinearCombination(x, vectors, d) : x \in [1..Len(vectors) -> Field]}

\* The dimension of a subspace, from the number of its vectors.
RECURSIVE Log(_)
Log(n) == IF n <= 1 THEN 0 ELSE 1 + Log(n \div FieldP)

\* The ordered bases of a subspace: what basis() of a submodule may be.
OrderedBases(space, d) ==
    {b \in [1..Log(Cardinality(space)) -> space] : Span(b, d) = space}

\* phi.matrix(...).eigenspaces_right() for phi = "multiply by gen" on the space:
\* the eigenvalues with their eigenspaces.
Eigenspaces(gen, space) ==
    LET d == Len(gen)
        E(ev) == {x \in space : Mul(gen, x) = Scale(ev, x)}
        evs == {ev \in Field : E(ev) # {Zero(d)}}
        RECURSIVE List(_)
        List(left) ==
            IF left = {} THEN <<>>
            ELSE <<[value |-> Min(left), space |-> E(Min(left))]>>
                     \o List(left \ {Min(left)})
    IN List(evs)

\* The coordinates of an element on the basis of the algebra.
Coordinates(x, basis) ==
    CHOOSE c \in [1..Len(basis) -> Field] : LinearCombination(c, basis, Len(basis)) = x

\* e.leading_coefficient(): the coefficient of the largest basis index of the
\* support; 0 stands for the ValueError raised on the zero element.
leading_coefficient(x, basis) ==
    LET c == Coordinates(x, basis)
        support == {i \in 1..Len(basis) : c[i] # 0}
    IN IF support = {} THEN 0 ELSE c[Max(support)]

-----------------------------------------------------------------------------
(* SemisimpleAlgebras.FiniteDimensional.WithBasis.Commutative              *)

NoFrame == [space |-> {}, basis |-> <<>>, generators |-> <<>>, topLevel |-> FALSE]

\* A call of _orthogonal_decomposition(generators=None, topLevel) on a space
\* with the given basis: generators = self.basis().list()
Call(space, basis, topLevel) ==
    [space |-> space, basis |-> basis, generators |-> basis, topLevel |-> topLevel]

\* The search giving up with one generator left: "if len(generators) < 2".
ExhaustedBelowTwo(generators) == Len(generators) < 2

\* generators == []
Exhausted(generators) == generators = <<>>

\* The generator read and left in the list: "gen = generators[-1]".
NotPopped(generators) == generators

\* generators after "gen = generators.pop()"
Popped(generators) == SubSeq(generators, 1, Len(generators) - 1)

\* The search asking for three eigenspaces: "while len(res) < 3".
KeepsSearchingBelowThree(res) == Len(res) < 3

\* while len(res) < 2
KeepsSearching(res) == Len(res) < 2

\* The eigenspaces without the kernel of the multiplication: "... in res if _ != 0".
VectorSpacesOffKernel(res) ==
    LET kept == SelectSeq(res, LAMBDA r : r.value # 0)
    IN [n \in 1..Len(kept) |-> kept[n].space]

\* res = [vector_space for _, vector_space in res]
VectorSpaces(res) == [n \in 1..Len(res) |-> res[n].space]

Reverse(seq) == [n \in 1..Len(seq) |-> seq[Len(seq) + 1 - n]]

\* No rescaling: the vectors of the decomposition returned as they are.
NoNormalizingCoefficient(e, basis) == 1

\* The rescaling without its numerator: 1 / (e*e).leading_coefficient().
InverseOfSquareCoefficient(e, basis) ==
    Inverse(leading_coefficient(Mul(e, e), basis))

\* e.leading_coefficient() / (e*e).leading_coefficient()
NormalizingCoefficient(e, basis) ==
    (leading_coefficient(e, basis) * Inverse(leading_coefficient(Mul(e, e), basis)))
        % FieldP

-----------------------------------------------------------------------------
(* class PlanePartitions: the factory and the parents it returns           *)

NoParent == [cls |-> "none", box |-> NoBox, n |-> 0, msg |-> ""]

\* raise ValueError(msg): no parent is returned and no _box is stored.
ParentRaise(msg) == [cls |-> "ValueError", box |-> NoBox, n |-> 0, msg |-> msg]

\* A parent of the class with self._box = box_size.
BoxParent(cls, box_size) == [cls |-> cls, box |-> box_size, n |-> 0, msg |-> ""]

\* The precondition with "or" for "and": a box with some odd side is refused.
SomeSideOdd(box_size) == box_size[1] % 2 = 1 \/ box_size[2] % 2 = 1 \/ box_size[3] % 2 = 1

\* box_size[0] % 2 == 1 and box_size[1] % 2 == 1 and box_size[2] % 2 == 1
AllSidesOdd(box_size) == box_size[1] % 2 = 1 /\ box_size[2] % 2 = 1 /\ box_size[3] % 2 = 1

\* box_size[0] != box_size[1] or box_size[1] != box_size[2] or box_size[0] % 2 != 0
NotAnEvenCube(box_size) ==
    box_size[1] # box_size[2] \/ box_size[2] # box_size[3] \/ box_size[1] % 2 # 0

\* PlanePartitions_SCPP.__init__, PlanePartitions_TCPP.__init__,
\* PlanePartitions_SSCPP.__init__
ParityParent(cls, box_size) ==
    IF AllSidesOdd(box_size) THEN ParentRaise("box sides cannot all be odd")
    ELSE BoxParent(cls, box_size)

\* PlanePartitions_TSSCPP.__init__
PlanePartitions_TSSCPP(box_size) ==
    IF NotAnEvenCube(box_size) THEN ParentRaise("invalid box size; must be (2r,2r,2r)")
    ELSE BoxParent("PlanePartitions_TSSCPP", box_size)

\* The symmetry names the factory knows; "None" stands for no symmetry keyword.
SymmetryNames ==
    {"None", "SPP", "CSPP", "TSPP", "SCPP", "TCPP", "SSCPP", "CSTCPP", "CSSCPP", "TSSCPP"}

\* PlanePartitions.__classcall_private__(cls, *args, **kwds)
classcall_private(a) ==
    IF a.kind = "none" THEN [cls |-> "PlanePartitions_all", box |-> NoBox, n |-> 0, msg |-> ""]
    ELSE IF a.kind = "int"
         THEN [cls |-> "PlanePartitions_n", box |-> NoBox, n |-> a.n, msg |-> ""]
    ELSE CASE a.symmetry = "None" -> BoxParent("PlanePartitions_box", a.box)
           [] a.symmetry \in {"SPP", "CSPP", "TSPP", "CSTCPP", "CSSCPP"} ->
                  BoxParent("PlanePartitions_" \o a.symmetry, a.box)
           [] a.symmetry \in {"SCPP", "TCPP", "SSCPP"} ->
                  ParityParent("PlanePartitions_" \o a.symmetry, a.box)
           [] a.symmetry = "TSSCPP" -> PlanePartitions_TSSCPP(a.box)
           [] OTHER -> ParentRaise("invalid symmetry class option")

\* The classes that define __iter__ on a poset of their own.
PosetClasses == {"PlanePartitions_SPP", "PlanePartitions_CSPP", "PlanePartitions_TSSCPP"}

\* The classes that define no __iter__: the iteration falls to the category's
\* default, which raises NotImplementedError.
ClassesWithoutIter ==
    {"PlanePartitions_TSPP", "PlanePartitions_SCPP", "PlanePartitions_TCPP",
     "PlanePartitions_SSCPP", "PlanePartitions_CSTCPP", "PlanePartitions_CSSCPP"}

\* pl of the parent's __iter__
PosetElements(p) ==
    CASE p.cls = "PlanePartitions_SPP" -> SPP_pl(p.box)
      [] p.cls = "PlanePartitions_CSPP" -> CSPP_pl(p.box)
      [] OTHER -> TSSCPP_pl(p.box[1])

\* The order of pocp in the parent's __iter__
PosetOrder(p) ==
    CASE p.cls = "PlanePartitions_SPP" -> SPP_order(p.box)
      [] p.cls = "PlanePartitions_CSPP" -> CSPP_order(p.box)
      [] OTHER -> TSSCPP_order(p.box[1])

\* ppMatrix as the parent's __iter__ has it at the yield, or the exception.
ParentMatrixOf(p, antichain) ==
    CASE p.cls = "PlanePartitions_SPP" -> SPP_MatrixOf(p.box, antichain)
      [] p.cls = "PlanePartitions_CSPP" -> CSPP_MatrixOf(p.box, antichain)
      [] OTHER -> TSSCPP_MatrixOf(p.box[1], antichain)

\* The predicate of the parent's class on an element.
ClassPredicate(cls, o) ==
    CASE cls = "PlanePartitions_SPP" -> is_SPP(o)
      [] cls = "PlanePartitions_CSPP" -> is_CSPP(o)
      [] cls = "PlanePartitions_TSPP" -> is_TSPP(o)
      [] cls = "PlanePartitions_SCPP" -> is_SCPP(o)
      [] cls = "PlanePartitions_TCPP" -> is_TCPP(o)
      [] cls = "PlanePartitions_SSCPP" -> is_SSCPP(o)
      [] cls = "PlanePartitions_CSTCPP" -> is_CSTCPP(o)
      [] cls = "PlanePartitions_CSSCPP" -> is_CSSCPP(o)
      [] cls = "PlanePartitions_TSSCPP" -> is_TSSCPP(o)
      [] OTHER -> "True"

IdleFactory ==
    /\ args = [kind |-> "none", n |-> 0, box |-> NoBox, symmetry |-> "None"]
    /\ itParent = NoParent
    /\ itQueues = <<>>
    /\ itRest = <<>>
    /\ itAcl = <<>>
    /\ itEmitted = {}
    /\ itCount = 0
    /\ itVerdicts = {}
    /\ itPc = "idle"

-----------------------------------------------------------------------------
(* Constructing a plane partition and applying its methods.                *)

Boxes == (1..MaxSide) \X (1..MaxSide) \X (1..MaxSide)

IdleBox ==
    /\ box = <<1, 1, 1>>
    /\ queues = <<>>
    /\ acl = <<>>
    /\ emitted = {}
    /\ count = 0
    /\ ipc = "idle"
    /\ sampled = NoObject

\* generators=None: the caller passed no list.
NoList == [given |-> FALSE, atCall |-> <<>>, now |-> <<>>]

IdleAlgebra ==
    /\ algBasis = <<>>
    /\ frame = NoFrame
    /\ pending = <<>>
    /\ decomposition = <<>>
    /\ idempotents = <<>>
    /\ apc = "idle"
    /\ callerList = NoList

IdlePP ==
    /\ parentBox = NoBox
    /\ pp = <<>>
    /\ obj = NoObject
    /\ orig = NoObject
    /\ ops = <<>>
    /\ member = "unset"
    /\ cyclic = NotAsked

\* Any array of integer rows, handed to PlanePartition(...) and to
\* PlanePartitions().__contains__.
InitCheck ==
    /\ pp \in ArraysOver((0 - 1)..MaxRawEntry, MaxRawRows, MaxRawCols)
    /\ parentBox = NoBox
    /\ obj = NoObject
    /\ orig = NoObject
    /\ ops = <<>>
    /\ member = "unset"
    /\ cyclic = NotAsked
    /\ IdleBox
    /\ IdleAlgebra
    /\ IdleFactory

\* An array that passes check(), handed to a parent with or without a box.
InitOps ==
    /\ pp \in {a \in ArraysOver(0..MaxEntry, MaxRows, MaxCols) : check(a) = "ok"}
    /\ parentBox \in {NoBox} \cup Boxes
    /\ obj = NoObject
    /\ orig = NoObject
    /\ ops = <<>>
    /\ member = "unset"
    /\ cyclic = NotAsked
    /\ IdleBox
    /\ IdleAlgebra
    /\ IdleFactory

\* parent.element_class(parent, pp): __init__ with check=True
Construct ==
    /\ obj.kind = "none"
    /\ obj' = New(parentBox, pp, TRUE)
    /\ orig' = obj'
    /\ UNCHANGED <<parentBox, pp, ops, member, cyclic, boxVars, algVars, facVars>>

\* pp in PlanePartitions()
Contains ==
    /\ member = "unset"
    /\ member' = contains(pp)
    /\ UNCHANGED <<parentBox, pp, obj, orig, ops, cyclic, boxVars, algVars, facVars>>

\* obj = obj.complement()
Complement ==
    /\ obj.kind = "PlanePartition"
    /\ Len(ops) < MaxOps
    /\ obj' = complement(parentBox, obj)
    /\ ops' = Append(ops, "complement")
    /\ UNCHANGED <<parentBox, pp, orig, member, cyclic, boxVars, algVars, facVars>>

\* obj = obj.transpose()
Transpose ==
    /\ obj.kind = "PlanePartition"
    /\ Len(ops) < MaxOps
    /\ obj' = transpose(parentBox, obj)
    /\ ops' = Append(ops, "transpose")
    /\ UNCHANGED <<parentBox, pp, orig, member, cyclic, boxVars, algVars, facVars>>

\* iter(PlanePartitions(box)): the generator before its first step.
InitBox ==
    /\ box \in (1..MaxBoxA) \X (1..MaxBoxB) \X (1..MaxBoxC)
    /\ queues = InitialQueues(box)
    /\ acl = <<>>
    /\ emitted = {}
    /\ count = 0
    /\ ipc = "iter"
    /\ sampled = NoObject
    /\ IdlePP
    /\ IdleAlgebra
    /\ IdleFactory

\* One round of "for acl in pocp.antichains_iterator()": the iterator pops an
\* entry, yields its antichain and appends the entries that extend it; the
\* enumerator builds ppMatrix and yields self.element_class(self, ppMatrix).
IterNext ==
    /\ ipc = "iter"
    /\ queues # <<>>
    /\ LET top == queues[Len(queues)]
           element == New(box, MatrixOf(box, top.antichain), TRUE)
       IN /\ queues' = SubSeq(queues, 1, Len(queues) - 1)
                          \o Expand(top.antichain, top.queue)
          /\ acl' = top.antichain
          /\ IF element.kind = "PlanePartition"
             THEN /\ emitted' = emitted \cup {element.list}
                  /\ count' = count + 1
                  /\ ipc' = "iter"
             ELSE /\ ipc' = element.kind
                  /\ UNCHANGED <<emitted, count>>
    /\ UNCHANGED <<box, sampled, ppVars, algVars, facVars>>

\* The antichain iterator is exhausted: the generator returns.
IterStop ==
    /\ ipc = "iter"
    /\ queues = <<>>
    /\ ipc' = "done"
    /\ UNCHANGED <<box, queues, acl, emitted, count, sampled, ppVars, algVars, facVars>>

NextBox == IterNext \/ IterStop

SpecBox == InitBox /\ [][NextBox]_vars

\* P.random_order_ideal(): what it can return, the subsets of the poset that
\* hold every element below one of their elements.
OrderIdeals(bx) ==
    {I \in SUBSET ProductOfChains(bx) :
        \A q \in I : \A p \in ProductOfChains(bx) : Leq(p, q) => p \in I}

\* Z after "for C in I: Z[C[0]][C[1]] += 1" on an a by b matrix of zeros.
CountColumns(bx, I) ==
    [i \in 1..bx[1] |->
        [j \in 1..bx[2] |->
            Cardinality({C \in I : C[1] = i - 1 /\ C[2] = j - 1})]]

\* PlanePartitions_box.random_element(), called once after the iteration.
random_element ==
    /\ ipc = "done"
    /\ sampled = NoObject
    /\ \E I \in OrderIdeals(box) : sampled' = New(box, CountColumns(box, I), FALSE)
    /\ UNCHANGED <<box, queues, acl, emitted, count, ipc, ppVars, algVars, facVars>>

NextRandom == IterNext \/ IterStop \/ random_element

SpecRandom == InitBox /\ [][NextRandom]_vars

\* The vectors a basis of the algebra is made of.
BasisVectors(d) == [1..d -> 0..MaxCoeff]

\* Z.central_orthogonal_idempotents() has called self._orthogonal_decomposition().
InitAlgebra ==
    /\ \E d \in 1..MaxDim :
          \E b \in [1..d -> BasisVectors(d)] :
             /\ Span(b, d) = [1..d -> Field]
             /\ algBasis = b
             /\ frame = Call([1..d -> Field], b, TRUE)
    /\ pending = <<>>
    /\ decomposition = <<>>
    /\ idempotents = <<>>
    /\ apc = "call"
    /\ callerList = NoList
    /\ IdlePP
    /\ IdleBox
    /\ IdleFactory

\* if self.dimension() == 1: return the basis (lifted, below the top level)
Terminal ==
    /\ apc = "call"
    /\ Len(frame.basis) = 1
    /\ decomposition' = decomposition \o frame.basis
    /\ frame' = NoFrame
    /\ apc' = "return"
    /\ UNCHANGED <<algBasis, pending, idempotents, callerList, ppVars, boxVars, facVars>>

\* One round of "while len(res) < 2": raise when no generator is left, else pop
\* one and compute the eigenspaces of the multiplication by it; with two or
\* more of them, build the submodules and start the recursion on decomp.
Search ==
    /\ apc = "call"
    /\ Len(frame.basis) > 1
    /\ IF Exhausted(frame.generators)
       THEN /\ apc' = "Exception"
            /\ UNCHANGED <<frame, pending, callerList>>
       ELSE LET gen == frame.generators[Len(frame.generators)]
                left == Popped(frame.generators)
            IN \E res \in {Eigenspaces(gen, frame.space)} :
                  /\ callerList' = IF frame.topLevel /\ callerList.given
                                    THEN [callerList EXCEPT !.now = left]
                                    ELSE callerList
                  /\ IF KeepsSearching(res)
                     THEN /\ frame' = [frame EXCEPT !.generators = left]
                          /\ UNCHANGED <<pending, apc>>
                     ELSE /\ pending' = pending \o Reverse(VectorSpaces(res))
                          /\ frame' = NoFrame
                          /\ apc' = "return"
    /\ UNCHANGED <<algBasis, decomposition, idempotents, ppVars, boxVars, facVars>>

\* space._orthogonal_decomposition(topLevel=False) for the next space of
\* decomp, a submodule with some basis of its own.
Enter ==
    /\ apc = "return"
    /\ pending # <<>>
    /\ \E b \in OrderedBases(pending[Len(pending)], Len(algBasis)) :
          frame' = Call(pending[Len(pending)], b, FALSE)
    /\ pending' = SubSeq(pending, 1, Len(pending) - 1)
    /\ apc' = "call"
    /\ UNCHANGED <<algBasis, decomposition, idempotents, callerList, ppVars, boxVars, facVars>>

\* The top-level call has returned: central_orthogonal_idempotents rescales
\* every vector of the decomposition.
Normalize ==
    /\ apc = "return"
    /\ pending = <<>>
    /\ IF \E n \in 1..Len(decomposition) :
             \/ leading_coefficient(decomposition[n], algBasis) = 0
             \/ leading_coefficient(Mul(decomposition[n], decomposition[n]), algBasis) = 0
       THEN /\ apc' = "ValueError"
            /\ UNCHANGED idempotents
       ELSE /\ idempotents' =
                  [n \in 1..Len(decomposition) |->
                      Scale(NormalizingCoefficient(decomposition[n], algBasis),
                            decomposition[n])]
            /\ apc' = "done"
    /\ UNCHANGED <<algBasis, frame, pending, decomposition, callerList, ppVars, boxVars, facVars>>

NextAlgebra == Terminal \/ Search \/ Enter \/ Normalize

SpecAlgebra == InitAlgebra /\ [][NextAlgebra]_vars

\* self._orthogonal_decomposition() alone, up to the return of the top-level
\* call.
NextDecomposition == Terminal \/ Search \/ Enter

\* The call runs on: a step that can be taken is taken.
SpecDecomposition ==
    InitAlgebra /\ [][NextDecomposition]_vars /\ WF_vars(NextDecomposition)

\* The lists a caller passes as generators: elements of the basis, the one and
\* the zero of the algebra, in any order and number up to MaxGiven.
GivenLists(b, d) ==
    LET elements == {b[k] : k \in 1..d} \cup {One(d), Zero(d)}
    IN UNION {[1..n -> elements] : n \in 0..MaxGiven}

\* A number for a vector, to list the vectors of a basis in one order.
RECURSIVE VectorKey(_)
VectorKey(v) == IF v = <<>> THEN 0 ELSE v[1] + FieldP * VectorKey(Tail(v))

\* self._orthogonal_decomposition(generators=G) has been called: generators is
\* the caller's list itself.  The bases of the algebra are taken in one order
\* each, the lists in every order.
InitGiven ==
    /\ \E d \in 1..MaxDim :
          \E b \in [1..d -> BasisVectors(d)] :
             /\ Span(b, d) = [1..d -> Field]
             /\ \A k \in 1..(d - 1) : VectorKey(b[k]) < VectorKey(b[k + 1])
             /\ algBasis = b
             /\ \E G \in GivenLists(b, d) :
                   /\ frame = [Call([1..d -> Field], b, TRUE) EXCEPT !.generators = G]
                   /\ callerList = [given |-> TRUE, atCall |-> G, now |-> G]
    /\ pending = <<>>
    /\ decomposition = <<>>
    /\ idempotents = <<>>
    /\ apc = "call"
    /\ IdlePP
    /\ IdleBox
    /\ IdleFactory

SpecGiven == InitGiven /\ [][NextDecomposition]_vars

NextCheck == Construct \/ Contains

SpecCheck == InitCheck /\ [][NextCheck]_vars

NextOps == Construct \/ Complement \/ Transpose

SpecOps == InitOps /\ [][NextOps]_vars

\* obj.is_CSPP(), called once on the current object
CallIsCSPP ==
    /\ obj.kind = "PlanePartition"
    /\ cyclic = NotAsked
    /\ cyclic' = [on |-> obj, answer |-> is_CSPP(obj)]
    /\ UNCHANGED <<parentBox, pp, obj, orig, ops, member, boxVars, algVars, facVars>>

NextCyclic == Construct \/ Complement \/ Transpose \/ CallIsCSPP

SpecCyclic == InitOps /\ [][NextCyclic]_vars

-----------------------------------------------------------------------------
(* Calling the factory and iterating the parent it returns.                *)

\* The boxes handed to the factory: the small ones and the cubes.
FactoryBoxes ==
    ((1..MaxSymSide) \X (1..MaxSymSide) \X (1..MaxSymSide))
        \cup {<<s, s, s>> : s \in 1..(2 * MaxHalfSide)}

\* PlanePartitions(), PlanePartitions(n), PlanePartitions(box), each with or
\* without a symmetry keyword.
FactoryArgs ==
    LET symmetries == SymmetryNames \cup {"spp", "XYZ"}
    IN {[kind |-> "none", n |-> 0, box |-> NoBox, symmetry |-> sy] : sy \in symmetries}
         \cup {[kind |-> "int", n |-> k, box |-> NoBox, symmetry |-> sy] :
                  k \in 0..MaxN, sy \in symmetries}
         \cup {[kind |-> "box", n |-> 0, box |-> bx, symmetry |-> sy] :
                  bx \in FactoryBoxes, sy \in symmetries}

InitFactory ==
    /\ args \in FactoryArgs
    /\ itParent = NoParent
    /\ itQueues = <<>>
    /\ itRest = <<>>
    /\ itAcl = <<>>
    /\ itEmitted = {}
    /\ itCount = 0
    /\ itVerdicts = {}
    /\ itPc = "new"
    /\ IdlePP
    /\ IdleBox
    /\ IdleAlgebra

\* PlanePartitions(*args, symmetry=...)
Factory ==
    /\ itPc = "new"
    /\ itParent = NoParent
    /\ itParent' = classcall_private(args)
    /\ itPc' = IF itParent'.cls = "ValueError" THEN "ValueError" ELSE "made"
    /\ UNCHANGED <<args, itQueues, itRest, itAcl, itEmitted, itCount, itVerdicts,
                   ppVars, boxVars, algVars>>

\* iter(itParent), up to the first round of the loop: the poset is built, or the
\* class has no __iter__.  The symmetric enumerators of the boxes with a side
\* above MaxSymSide are not iterated, nor is a parent of the other classes.
IterStart ==
    /\ itPc = "made"
    /\ \/ /\ itParent.cls \in ClassesWithoutIter
          /\ itPc' = "NotImplementedError"
          /\ UNCHANGED <<itQueues, itRest>>
       \/ /\ itParent.cls = "PlanePartitions_n"
          /\ itRest' = iter_n(itParent.n)
          /\ itPc' = "iter"
          /\ UNCHANGED itQueues
       \/ /\ itParent.cls \in PosetClasses
          /\ itParent.cls = "PlanePartitions_TSSCPP"
                \/ \A s \in 1..3 : itParent.box[s] <= MaxSymSide
          /\ itQueues' = QueuesOf(PosetElements(itParent))
          /\ itPc' = "iter"
          /\ UNCHANGED itRest
    /\ UNCHANGED <<args, itParent, itAcl, itEmitted, itCount, itVerdicts,
                   ppVars, boxVars, algVars>>

\* One yield with its class predicate evaluated on the element, or the exception
\* that ends the generator.
Emit(element) ==
    IF element.kind = "PlanePartition"
    THEN /\ itEmitted' = itEmitted \cup {element.list}
         /\ itCount' = itCount + 1
         /\ itVerdicts' = itVerdicts \cup {ClassPredicate(itParent.cls, element)}
         /\ itPc' = "iter"
    ELSE /\ itPc' = element.kind
         /\ UNCHANGED <<itEmitted, itCount, itVerdicts>>

\* One round of "for acl in pocp.antichains_iterator()" of the SPP, CSPP or
\* TSSCPP enumerator.
IterNextPoset ==
    /\ itPc = "iter"
    /\ itParent.cls \in PosetClasses
    /\ itQueues # <<>>
    /\ LET top == itQueues[Len(itQueues)]
           ppMatrix == ParentMatrixOf(itParent, top.antichain)
       IN /\ itQueues' = SubSeq(itQueues, 1, Len(itQueues) - 1)
                            \o ExpandIn(PosetOrder(itParent), top.antichain, top.queue)
          /\ itAcl' = top.antichain
          /\ Emit(IF ppMatrix.exc # "" THEN Raise(ppMatrix.exc)
                  ELSE New(itParent.box, ppMatrix.tab, TRUE))
    /\ UNCHANGED <<args, itParent, itRest, ppVars, boxVars, algVars>>

\* The next yield of PlanePartitions_n.__iter__.
IterNextN ==
    /\ itPc = "iter"
    /\ itParent.cls = "PlanePartitions_n"
    /\ itRest # <<>>
    /\ itRest' = Tail(itRest)
    /\ Emit(Head(itRest))
    /\ UNCHANGED <<args, itParent, itQueues, itAcl, ppVars, boxVars, algVars>>

\* The generator returns.
IterDone ==
    /\ itPc = "iter"
    /\ itQueues = <<>>
    /\ itRest = <<>>
    /\ itPc' = "done"
    /\ UNCHANGED <<args, itParent, itQueues, itRest, itAcl, itEmitted, itCount, itVerdicts,
                   ppVars, boxVars, algVars>>

NextFactory == Factory \/ IterStart \/ IterNextPoset \/ IterNextN \/ IterDone

SpecFactory == InitFactory /\ [][NextFactory]_vars

-----------------------------------------------------------------------------
(* Claims about PlanePartition.                                            *)

\* The object is a full A x B array with entries in 0..C, where (A, B, C) is the
\* parent's box or, without a box, the smallest box around the array.
FillsItsBox(o) ==
    /\ Len(o.list) = o.max_x
    /\ \A r \in 1..Len(o.list) :
          /\ Len(o.list[r]) = o.max_y
          /\ \A c \in 1..Len(o.list[r]) : o.list[r][c] <= o.max_z

\* Without a box the complement is taken in the smallest box around the array,
\* and the complement's own smallest box is the same one only when the last
\* entry of the array is 0.
KeepsItsBox(parent, o) ==
    \/ parent # NoBox
    \/ o.list = <<>>
    \/ o.list[o.max_x][o.max_y] = 0

\* C7 as claimed: for every valid plane partition P, with or without a box, with
\* rows of any lengths, complement(complement(P)) == P.
C7_ComplementTwice ==
    (orig.kind = "PlanePartition" /\ ops = <<"complement", "complement">>)
        => (obj.kind = "PlanePartition" /\ obj.list = orig.list)

\* C7 as amended: complement(complement(P)) == P for every valid plane partition P
\* that is a full A x B array with entries in 0..C, (A, B, C) being the parent's
\* box, or, without a box, the smallest box around P provided P's last entry is 0.
C7_ComplementTwiceInBox ==
    (/\ orig.kind = "PlanePartition"
     /\ FillsItsBox(orig)
     /\ KeepsItsBox(parentBox, orig)
     /\ ops = <<"complement", "complement">>)
        => (obj.kind = "PlanePartition" /\ obj.list = orig.list)

C7_Witness ==
    /\ parentBox = <<2, 2, 2>>
    /\ orig.list = <<<<2, 1>>, <<1, 0>>>>
    /\ ops = <<"complement", "complement">>
    /\ obj.list = orig.list

\* C8: for every valid plane partition P, with or without a box, with rows of
\* any lengths, transpose(transpose(P)) == P.
C8_TransposeTwice ==
    (orig.kind = "PlanePartition" /\ ops = <<"transpose", "transpose">>)
        => (obj.kind = "PlanePartition" /\ obj.list = orig.list)

\* Some entry is negative, some row is not weakly decreasing, or some entry is
\* larger than the entry in the same column of the row directly above it.
Defective(rows) ==
    \/ \E r \in 1..Len(rows) : ~RowNonnegative(rows[r])
    \/ \E r \in 1..Len(rows) : ~RowWeaklyDecreasing(rows[r])
    \/ \E r \in 1..(Len(rows) - 1) :
          \E c \in 1..Len(rows[r + 1]) : c <= Len(rows[r]) /\ rows[r + 1][c] > rows[r][c]

\* C9: constructing a plane partition from a defective row array fails with
\* InvalidPlanePartitionError (the ValueError of check()), and returns no object.
C9_DefectiveRaisesValueError ==
    (obj.kind # "none" /\ Defective(pp)) => obj.kind = "ValueError"

\* C10: __contains__ returns a boolean and never raises, for every array of
\* rows of integers.
C10_ContainsNeverRaises == member \in {"unset", "True", "False"}

-----------------------------------------------------------------------------
(* Claims about PlanePartitions_box.                                       *)

\* C1: the number of plane partitions the iteration of a box produces equals
\* cardinality(), the MacMahon product.
C1_CountIsCardinality ==
    ipc = "done" => (cardinality(box).exc = "" /\ count = cardinality(box).value)

C1_Witness == ipc = "done" /\ box = <<3, 2, 2>> /\ count = 50

\* The plane partitions that fit in the box (A, B, C): at most A rows, rows of
\* length at most B, entries at most C; written as full A x B arrays.
FitsInBox(rows, bx) ==
    /\ contains(rows) = "True"
    /\ Len(rows) <= bx[1]
    /\ \A r \in 1..Len(rows) :
          /\ Len(rows[r]) <= bx[2]
          /\ \A c \in 1..Len(rows[r]) : rows[r][c] <= bx[3]

PartitionsInBox(bx) ==
    {M \in [1..bx[1] -> [1..bx[2] -> 0..bx[3]]] : FitsInBox(M, bx)}

\* C2: antichain |-> array is a bijection from the antichains of the poset onto
\* the plane partitions fitting in the box: no array is yielded for two
\* antichains, and the arrays yielded are exactly those fitting in the box.
C2_BijectionOntoBox ==
    /\ Cardinality(emitted) = count
    /\ ipc = "done" => emitted = PartitionsInBox(box)

\* C3: every plane partition the iteration emits is valid, has at most A rows,
\* rows of length at most B and entries at most C.
C3_EmittedFitsInBox == \A P \in emitted : FitsInBox(P, box)

-----------------------------------------------------------------------------
(* Claims about central_orthogonal_idempotents.                            *)

\* C4: the returned elements are orthogonal idempotents: e * e = e for each of
\* them, and the product of two of them at different positions is zero.
C4_OrthogonalIdempotents ==
    apc = "done" =>
        \A m, n \in 1..Len(idempotents) :
            Mul(idempotents[m], idempotents[n]) =
                IF m = n THEN idempotents[m] ELSE Zero(Len(algBasis))

C4_Witness ==
    /\ apc = "done"
    /\ Len(algBasis) = 3
    /\ Len(idempotents) = 3
    /\ \E n \in 1..3 : decomposition[n] # idempotents[n]

\* C5: the returned elements sum to the multiplicative identity of the algebra.
C5_SumIsIdentity ==
    apc = "done" => Sum(idempotents, Len(algBasis)) = One(Len(algBasis))

C5_Witness ==
    /\ apc = "done"
    /\ Len(algBasis) = 3
    /\ Sum(idempotents, 3) = One(3)
    /\ Sum(decomposition, 3) # One(3)

\* C6: for a product of d copies of the field the decomposition raises nothing
\* and returns d elements, whatever the bases of the algebra and of the
\* submodules.
C6_SplitsCompletely ==
    /\ apc \in {"call", "return", "done"}
    /\ (apc = "return" /\ pending = <<>>) => Len(decomposition) = Len(algBasis)
    /\ apc = "done" => Len(idempotents) = Len(algBasis)

C6_Witness ==
    /\ apc = "done"
    /\ Len(algBasis) = 3
    /\ Len(idempotents) = 3
    /\ One(3) \in {algBasis[n] : n \in 1..3}

-----------------------------------------------------------------------------
(* Claims about the factory PlanePartitions.                               *)

\* C11: with a box, the constructors of SCPP, TCPP and SSCPP fail exactly when
\* the three sides are odd, and the constructor of TSSCPP exactly when the box
\* is not (2r, 2r, 2r); the failure is a ValueError raised before the box is
\* stored and before any poset is built; otherwise the parent is made with its
\* box.
C11_BoxPreconditions ==
    LET allOdd == \A s \in 1..3 : args.box[s] % 2 = 1
        evenCube == \E r \in 0..MaxHalfSide + 1 : args.box = <<2 * r, 2 * r, 2 * r>>
        refused == IF args.symmetry = "TSSCPP" THEN ~evenCube ELSE allOdd
    IN (args.kind = "box" /\ args.symmetry \in {"SCPP", "TCPP", "SSCPP", "TSSCPP"}
          /\ itPc # "new")
       => IF refused
          THEN /\ itPc = "ValueError"
               /\ itParent.cls = "ValueError"
               /\ itParent.box = NoBox
               /\ itQueues = <<>>
               /\ itCount = 0
          ELSE /\ itPc # "ValueError"
               /\ itParent = BoxParent("PlanePartitions_" \o args.symmetry, args.box)

C11_Witness ==
    /\ args.kind = "box"
    /\ args.symmetry = "SSCPP"
    /\ args.box = <<3, 1, 3>>
    /\ itPc = "ValueError"
    /\ itParent.msg = "box sides cannot all be odd"

\* C12: a symmetry name the factory does not know makes it fail with a
\* ValueError, whatever the other arguments are: none, an integer, or a box.
C12_UnknownSymmetryRaises ==
    (args.symmetry \notin SymmetryNames /\ itPc # "new")
       => (itPc = "ValueError" /\ itParent.cls = "ValueError")

-----------------------------------------------------------------------------
(* Claims about the symmetric enumerators.                                 *)

\* C13: for every box the iteration of the SPP enumerator raises nothing, and
\* is_SPP is True on every plane partition it emits.
C13_SPPIteratesSymmetric ==
    itParent.cls = "PlanePartitions_SPP"
       => (itPc \in {"made", "iter", "done"} /\ itVerdicts \subseteq {"True"})

\* The cells the CSPP enumerator writes for one point, each with the height
\* written.
CSPP_Writes(p) ==
    {<<p[2], p[3], p[1] + 1>>, <<p[3], p[1], p[2] + 1>>, <<p[1], p[2], p[3] + 1>>}

\* Two points of the antichain write different heights to one cell.
OverwritesACell(antichain) ==
    \E k1, k2 \in 1..Len(antichain) :
       /\ k1 # k2
       /\ \E w1 \in CSPP_Writes(antichain[k1]), w2 \in CSPP_Writes(antichain[k2]) :
             w1[1] = w2[1] /\ w1[2] = w2[2] /\ w1[3] # w2[3]

\* C14: for every box the iteration of the CSPP enumerator raises nothing,
\* every array it emits is a valid plane partition on which is_CSPP is True,
\* and no two points of one antichain write different heights to one cell.
C14_CSPPIteratesCyclic ==
    itParent.cls = "PlanePartitions_CSPP"
       => /\ itPc \in {"made", "iter", "done"}
          /\ itVerdicts \subseteq {"True"}
          /\ \A P \in itEmitted : contains(P) = "True"
          /\ ~OverwritesACell(itAcl)

\* C15: for every box (2r, 2r, 2r), r >= 1, the TSSCPP enumerator raises
\* nothing (no index leaves the matrix, for any antichain), and every array it
\* emits is a valid 2r x 2r plane partition with entries in 0..2r on which
\* is_TSSCPP is True.
C15_TSSCPPReconstruction ==
    itParent.cls = "PlanePartitions_TSSCPP"
       => /\ itPc \in {"made", "iter", "done"}
          /\ itVerdicts \subseteq {"True"}
          /\ \A P \in itEmitted :
                /\ contains(P) = "True"
                /\ Len(P) = itParent.box[1]
                /\ \A r \in 1..Len(P) :
                      /\ Len(P[r]) = itParent.box[2]
                      /\ \A c \in 1..Len(P[r]) : P[r][c] \in 0..itParent.box[3]

C15_Witness ==
    /\ itParent.cls = "PlanePartitions_TSSCPP"
    /\ itParent.box = <<6, 6, 6>>
    /\ itPc = "done"
    /\ itCount = 7
    /\ Cardinality(itEmitted) = 7

\* C16: the iteration of a TSPP, SCPP, TCPP, SSCPP, CSTCPP or CSSCPP parent made
\* for a box its constructor accepts raises nothing and comes to its end, and
\* the predicate of the class is True on every plane partition it yields.
C16_OtherClassesIterate ==
    itParent.cls \in ClassesWithoutIter
       => (itPc \in {"made", "iter", "done"} /\ itVerdicts \subseteq {"True"})

\* The plane partitions that fit in the box, as elements of the parent, on
\* which the predicate of the class is True.
SymmetricInBox(cls, bx) ==
    {M \in PartitionsInBox(bx) : ClassPredicate(cls, New(bx, M, TRUE)) = "True"}

\* C17: for SPP, CSPP and TSSCPP the antichains of the poset correspond
\* bijectively to the plane partitions in the box that satisfy the symmetry: no
\* array is yielded for two antichains, and when the iteration has ended the
\* arrays yielded are exactly the plane partitions in the box on which the
\* predicate of the class is True (compared for the boxes with no side above
\* MaxSymSide).
C17_AntichainsOntoSymmetric ==
    itParent.cls \in PosetClasses
       => /\ Cardinality(itEmitted) = itCount
          /\ (itPc \notin {"made", "iter"} /\ \A s \in 1..3 : itParent.box[s] <= MaxSymSide)
                => itEmitted = SymmetricInBox(itParent.cls, itParent.box)

-----------------------------------------------------------------------------
(* Claims about PlanePartitions_n.                                         *)

RECURSIVE RowsOfSum(_, _)
RowsOfSum(m, top) ==
    IF m = 0 THEN {<<>>}
    ELSE UNION {{<<part>> \o rest : rest \in RowsOfSum(m - part, part)} :
                   part \in 1..(IF m < top THEN m ELSE top)}

\* The row lies under the row above it.
LiesUnder(row, above) ==
    /\ Len(row) <= Len(above)
    /\ \A c \in 1..Len(row) : row[c] <= above[c]

\* The plane partitions of volume n, written without zeros, whose first row lies
\* under the row above.
RECURSIVE OfVolumeUnder(_, _)
OfVolumeUnder(n, above) ==
    IF n = 0 THEN {<<>>}
    ELSE UNION {{<<la>> \o rest : rest \in OfVolumeUnder(n - SumOf(la), la)} :
                   la \in {row \in UNION {RowsOfSum(m, m) : m \in 1..n} : LiesUnder(row, above)}}

\* The plane partitions of volume n.
OfVolume(n) == OfVolumeUnder(n, [c \in 1..n |-> n])

\* The sum of the entries of a plane partition.
RECURSIVE Volume(_)
Volume(rows) == IF rows = <<>> THEN 0 ELSE SumOf(Head(rows)) + Volume(Tail(rows))

\* C19: the iteration of PlanePartitions(n) raises nothing and yields each plane
\* partition of volume n once: every array yielded is a valid plane partition
\* with positive entries of sum n, none is yielded twice, and when the iteration
\* is done every plane partition of volume n has been yielded.
C19_EachOfVolumeOnce ==
    itParent.cls = "PlanePartitions_n"
       => /\ itPc \in {"made", "iter", "done"}
          /\ Cardinality(itEmitted) = itCount
          /\ \A P \in itEmitted :
                /\ contains(P) = "True"
                /\ \A r \in 1..Len(P) : Len(P[r]) > 0 /\ \A c \in 1..Len(P[r]) : P[r][c] > 0
                /\ Volume(P) = itParent.n
          /\ itPc = "done" => itEmitted = OfVolume(itParent.n)

C19_Witness ==
    /\ itParent.cls = "PlanePartitions_n"
    /\ itParent.n = 5
    /\ itPc = "done"
    /\ itCount = 24
    /\ <<<<2, 1>>, <<1>>, <<1>>>> \in itEmitted
    /\ itEmitted = OfVolume(5)

-----------------------------------------------------------------------------
(* Claims about _orthogonal_decomposition.                                 *)

\* self.dimension() of a subspace
Dimension(space) == Log(Cardinality(space))

\* The call tree of _orthogonal_decomposition has returned to its caller, or
\* has raised.
DecompositionEnded ==
    \/ apc = "return" /\ pending = <<>>
    \/ apc = "Exception"

\* The search has found its generator: the subspaces it hands to the recursive
\* calls are those added to pending, each of a dimension below that of the
\* space split.
SplitsIntoSmaller ==
    (apc = "call" /\ Len(frame.basis) > 1 /\ apc' = "return")
       => /\ Len(pending') >= Len(pending) + 2
          /\ \A k \in (Len(pending) + 1)..Len(pending') :
                /\ Dimension(pending'[k]) >= 1
                /\ Dimension(pending'[k]) < Dimension(frame.space)

\* A call on a space of dimension 1 returns its basis and starts no call.
DimensionOneReturns ==
    (apc = "call" /\ Len(frame.basis) = 1)
       => /\ apc' = "return"
          /\ pending' = pending
          /\ decomposition' = decomposition \o frame.basis

\* A round of the search that goes on has used up one generator, of the
\* dimension-many the call started with.
SearchUsesUpAGenerator ==
    /\ apc = "call" => Len(frame.generators) <= Dimension(frame.space)
    /\ (apc = "call" /\ apc' = "call")
          => Len(frame'.generators) = Len(frame.generators) - 1

\* C20: the decomposition always ends, with a result or with the exception of
\* the exhausted search: every subspace handed to a recursive call has a
\* dimension below that of the space split, a call on a space of dimension 1
\* returns without a recursive call, and each round of the search uses up one of
\* the generators.
C20_DecompositionTerminates ==
    /\ <>DecompositionEnded
    /\ [][SplitsIntoSmaller /\ DimensionOneReturns /\ SearchUsesUpAGenerator]_vars

C20_Witness ==
    /\ apc = "return"
    /\ pending = <<>>
    /\ Len(algBasis) = 3
    /\ Len(decomposition) = 3
    /\ One(3) = algBasis[3]

\* The list of candidates the running call started with: the caller's list at
\* the top level when one was passed, else the basis of the space.
CandidatesOf(f) == IF f.topLevel /\ callerList.given THEN callerList.atCall ELSE f.basis

\* The multiplication by the generator has fewer than 2 eigenspaces.
GivesNoSplit(gen, space) == Len(Eigenspaces(gen, space)) < 2

\* The candidates left are the first ones of the list the call started with, and
\* each one consumed so far gave no split.
ConsumedInTurn(f) ==
    LET all == CandidatesOf(f)
    IN /\ Len(f.generators) <= Len(all)
       /\ f.generators = SubSeq(all, 1, Len(f.generators))
       /\ \A k \in (Len(f.generators) + 1)..Len(all) : GivesNoSplit(all[k], f.space)

\* A round of the search: with no candidate left the step fails; the last
\* candidate is consumed, and it is discarded exactly when it gives no split.
SearchRound ==
    (apc = "call" /\ Len(frame.basis) > 1)
       => IF frame.generators = <<>>
          THEN apc' = "Exception"
          ELSE LET gen == frame.generators[Len(frame.generators)]
               IN IF GivesNoSplit(gen, frame.space)
                  THEN /\ apc' = "call"
                       /\ frame'.generators = SubSeq(frame.generators, 1, Len(frame.generators) - 1)
                  ELSE apc' = "return"

\* C21: in a step on a space of dimension above 1 the candidates are consumed
\* one at a time from the end of the list, one that gives fewer than 2
\* eigenspaces is discarded and the next is tried, and the step fails exactly
\* when every candidate was consumed and none gave 2 eigenspaces: never with a
\* candidate left, never after one that gave 2.
C21_SearchFailsWhenExhausted ==
    /\ [](apc = "call" /\ Len(frame.basis) > 1 => ConsumedInTurn(frame))
    /\ [](apc = "Exception"
             => /\ frame.generators = <<>>
                /\ \A k \in 1..Len(CandidatesOf(frame)) :
                      GivesNoSplit(CandidatesOf(frame)[k], frame.space))
    /\ [][SearchRound]_vars

C21_Witness ==
    /\ apc = "Exception"
    /\ Len(algBasis) = 3
    /\ callerList.atCall = <<One(3), Zero(3)>>
    /\ callerList.now = <<>>

\* C22: the call leaves the list of generators its caller passed as it was:
\* when the call has returned or failed, the list holds the same elements in
\* the same order as at the call.
C22_GeneratorsUntouched ==
    (callerList.given /\ DecompositionEnded) => callerList.now = callerList.atCall

\* C23: the enumerator of the box (1, 2, 1) yields exactly the arrays [[0, 0]],
\* [[1, 0]] and [[1, 1]].
C23_BoxOneTwoOne ==
    (ipc = "done" /\ box = <<1, 2, 1>>)
        => LET listed == {<< <<0, 0>> >>, << <<1, 0>> >>, << <<1, 1>> >>}
           IN /\ \A P \in emitted : \E Q \in listed : P = Q
              /\ \A Q \in listed : \E P \in emitted : P = Q

\* The three tableau methods return, each a matrix of the shape the box gives.
TableauxReturn(o) ==
    LET Z == z_tableau(o)
        Y == y_tableau(o)
        X == x_tableau(o)
        Shaped(T, m, n) == Len(T) = m /\ \A r \in 1..m : Len(T[r]) = n
    IN /\ Z.exc = "" /\ Shaped(Z.tab, o.max_x, o.max_y)
       /\ Y.exc = "" /\ Shaped(Y.tab, o.max_z, o.max_x)
       /\ X.exc = "" /\ Shaped(X.tab, o.max_y, o.max_z)

\* C24: for every element the enumerator of the box (A, B, C) yields,
\* z_tableau, y_tableau and x_tableau return matrices of the shapes A by B,
\* C by A and B by C.
C24_TableauxOfEmitted ==
    \A P \in emitted :
        LET o == New(box, P, TRUE)
        IN /\ o.max_x = box[1] /\ o.max_y = box[2] /\ o.max_z = box[3]
           /\ TableauxReturn(o)

\* The largest member of a set of naturals, 0 for the empty set.
Largest(S) == IF S = {} THEN 0 ELSE Max(S)

\* C25: a valid array constructed without a box gives an object whose max_x is
\* the number of rows, max_y the largest row length and max_z the largest
\* entry; the empty array and arrays with empty rows included.
C25_BoundsOfBoxless ==
    (parentBox = NoBox /\ orig.kind # "none")
        => /\ orig.kind = "PlanePartition"
           /\ orig.max_x = Len(pp)
           /\ orig.max_y = Largest({Len(pp[r]) : r \in 1..Len(pp)})
           /\ orig.max_z = Largest(UNION {{pp[r][c] : c \in 1..Len(pp[r])}
                                              : r \in 1..Len(pp)})

\* The z-tableau of o is square and equal to its transpose.
SquareSymmetric(o) ==
    LET Z == z_tableau(o)
    IN /\ Z.exc = ""
       /\ o.max_x = o.max_y
       /\ \A r \in 1..o.max_x : \A c \in 1..o.max_y : Z.tab[r][c] = Z.tab[c][r]

\* C26: for a valid plane partition is_SPP returns a boolean, True exactly when
\* the z-tableau is square and symmetric; it is False for
\* [[4,3,3,1],[2,1,1],[1,1]] and True for [[3,3,2],[3,3,2],[2,2,2]].
C26_SPPIsSquareSymmetric ==
    /\ is_SPP(New(NoBox, << <<4, 3, 3, 1>>, <<2, 1, 1>>, <<1, 1>> >>, TRUE)) = "False"
    /\ is_SPP(New(NoBox, << <<3, 3, 2>>, <<3, 3, 2>>, <<2, 2, 2>> >>, TRUE)) = "True"
    /\ (parentBox = NoBox /\ orig.kind = "PlanePartition")
           => /\ is_SPP(orig) \in {"True", "False"}
              /\ is_SPP(orig) = "True" <=> SquareSymmetric(orig)

\* The x-, y- and z-tableau of o all return and are the same matrix.
TableauxAllEqual(o) ==
    LET Z == z_tableau(o)
        Y == y_tableau(o)
        X == x_tableau(o)
    IN /\ Z.exc = "" /\ Y.exc = "" /\ X.exc = ""
       /\ Z.tab = Y.tab
       /\ Y.tab = X.tab

\* C27: is_CSPP returns True exactly when the x-tableau, the y-tableau and the
\* z-tableau of the plane partition are all equal.
C27_CSPPIsAllThreeEqual ==
    /\ cyclic # NotAsked => (cyclic.answer = "True" <=> TableauxAllEqual(cyclic.on))
    /\ LET P == New(NoBox, << <<4, 3, 3, 1>>, <<2, 1, 1>>, <<1, 1>> >>, TRUE)
           Q == New(NoBox, << <<3, 2, 2>>, <<3, 1, 0>>, <<1, 1, 0>> >>, TRUE)
       IN /\ is_CSPP(P) = "False" /\ ~TableauxAllEqual(P)
          /\ is_CSPP(Q) = "True" /\ TableauxAllEqual(Q)

\* is_CSPP returned True for [[2, 1], [1]].
C27_Witness ==
    /\ cyclic.answer = "True"
    /\ cyclic.on.list = << <<2, 1>>, <<1>> >>
    /\ parentBox = NoBox

\* The heights of the downward closure of an antichain: at (i, j), counted from
\* 0, the largest x + 1 over the points (x, y, z) with y >= i and z >= j.
DownwardClosure(bx, antichain) ==
    [i \in 1..bx[2] |->
        [j \in 1..bx[3] |->
            Largest({antichain[n][1] + 1 : n \in
                        {m \in 1..Len(antichain) :
                            antichain[m][2] >= i - 1 /\ antichain[m][3] >= j - 1}})]]

C29_RandomIsIterated ==
    /\ sampled # NoObject
           => /\ sampled.kind = "PlanePartition"
              /\ check(sampled.list) = "ok"
              /\ \E P \in emitted : P = sampled.list
    /\ ipc = "done"
           => \A P \in emitted : \E I \in OrderIdeals(box) : CountColumns(box, I) = P

\* The nonzero multiples c * e of a vector.
Multiples(e) == {Scale(c, e) : c \in Field \ {0}}

\* The idempotents f of the component e spans: f # 0, f * f = f, e = c * f.
PrimitiveIdempotents(e) ==
    {f \in Multiples(e) : f # Zero(Len(e)) /\ Mul(f, f) = f}

\* C30: for a vector e = c * f of the decomposition, f the primitive idempotent
\* of the component e spans and c # 0, (lc(e) / lc(e * e)) * e is f: the element
\* returned for e is f, and so is the rescaling of every other multiple of f.
C30_NormalizationGivesIdempotent ==
    apc = "done" =>
        \A n \in 1..Len(decomposition) :
            /\ Cardinality(PrimitiveIdempotents(decomposition[n])) = 1
            /\ idempotents[n] \in PrimitiveIdempotents(decomposition[n])
            /\ \A e \in Multiples(decomposition[n]) :
                   Scale(NormalizingCoefficient(e, algBasis), e) = idempotents[n]

\* A vector of the decomposition is twice its idempotent, and the idempotent
\* has the leading coefficient 2 on the basis of the algebra.
C30_Witness ==
    /\ apc = "done"
    /\ \E n \in 1..Len(decomposition) :
           /\ decomposition[n] = Scale(2, idempotents[n])
           /\ Mul(idempotents[n], idempotents[n]) = idempotents[n]
           /\ leading_coefficient(idempotents[n], algBasis) = 2

====
